---------------------------- MODULE Spec2Model ----------------------------
(***************************************************************************)
(* A model of github.com/JohnNON/oshi (oshi.go), the oshi.at API client.   *)
(*                                                                         *)
(* Text is kept as TLA+ strings; s[i] is written At(s, i).  The two        *)
(* regular expressions of oshi.go and the Go library calls the client      *)
(* makes on them (FindAllStringSubmatch, FindStringSubmatch, ToLower,      *)
(* url.Values.Set/Encode, strconv.FormatUint) are operators that compute   *)
(* what the calls compute.  The four public operations are actions split   *)
(* at the points where a call can be suspended: the transport's Do and the *)
(* reading of the response body.                                           *)
(***************************************************************************)
EXTENDS Integers, Sequences, FiniteSets, TLC

(***************************************************************************)
(* Text helpers                                                            *)
(***************************************************************************)

\* s[i] as a one-character string, "" outside the string.
At(s, i) == IF i >= 1 /\ i <= Len(s) THEN SubSeq(s, i, i) ELSE ""

\* s[i..j] (1-based, inclusive), "" when the range is empty.
Slice(s, i, j) == IF i <= j THEN SubSeq(s, i, j) ELSE ""

\* Whether s holds lit at position i.
HasAt(s, i, lit) ==
    /\ i >= 1
    /\ i + Len(lit) - 1 <= Len(s)
    /\ SubSeq(s, i, i + Len(lit) - 1) = lit

\* Whether s ends with suffix.
HasSuffix(s, suffix) ==
    /\ Len(suffix) <= Len(s)
    /\ Slice(s, Len(s) - Len(suffix) + 1, Len(s)) = suffix

\* Whether sub occurs in s.
Contains(s, sub) == \E i \in 1..(Len(s) - Len(sub) + 1) : HasAt(s, i, sub)

\* regexp syntax: \s is [\t\n\f\r ].
IsSpace(c) == c \in {" ", "\t", "\n", "\r", "\f"}

UpperLetters == "ABCDEFGHIJKLMNOPQRSTUVWXYZ"

LowerLetters == "abcdefghijklmnopqrstuvwxyz"

Digits == "0123456789"

\* The characters of a string, as a set.
CharsOf(s) == {At(s, i) : i \in 1..Len(s)}

AlnumChars == CharsOf(Digits) \cup CharsOf(LowerLetters) \cup CharsOf(UpperLetters)

\* regexp syntax: the class [0-9a-zA-Z].
IsAlnum(c) == c \in AlnumChars

\* unicode.ToLower on the upper-case letters of ASCII.
LowerOf ==
    [c \in CharsOf(UpperLetters) |->
        At(LowerLetters, CHOOSE i \in 1..Len(UpperLetters) : At(UpperLetters, i) = c)]

\* unicode.ToLower on one character of the (ASCII) alphabet.
LowerChar(c) == IF c \in DOMAIN LowerOf THEN LowerOf[c] ELSE c

RECURSIVE ToLower(_)
\* strings.ToLower.
ToLower(s) ==
    IF s = "" THEN ""
    ELSE LowerChar(At(s, 1)) \o ToLower(Slice(s, 2, Len(s)))

\* The first index >= i of s that does not hold a character satisfying the
\* class (Len(s) + 1 when the run reaches the end): where a greedy class+
\* started at i stops.
RECURSIVE SpaceRunEnd(_, _)
SpaceRunEnd(s, i) ==
    IF i <= Len(s) /\ IsSpace(At(s, i)) THEN SpaceRunEnd(s, i + 1) ELSE i

RECURSIVE NonSpaceRunEnd(_, _)
NonSpaceRunEnd(s, i) ==
    IF i <= Len(s) /\ ~IsSpace(At(s, i)) THEN NonSpaceRunEnd(s, i + 1) ELSE i

RECURSIVE AlnumRunEnd(_, _)
AlnumRunEnd(s, i) ==
    IF i <= Len(s) /\ IsAlnum(At(s, i)) THEN AlnumRunEnd(s, i + 1) ELSE i

RECURSIVE NonBracketRunEnd(_, _)
\* The class [^\]].
NonBracketRunEnd(s, i) ==
    IF i <= Len(s) /\ At(s, i) # "]" THEN NonBracketRunEnd(s, i + 1) ELSE i

NoMatch == [ok |-> FALSE, from |-> 0, to |-> 0, g1 |-> "", g2 |-> ""]

(***************************************************************************)
(* uploadResponseRegex = (https?://[^\s]+)\s+\[([^\]]+)\]                  *)
(*                                                                         *)
(* The match that starts at position i, as Go's leftmost-first matching    *)
(* finds it.  Every quantifier is greedy and is followed by something the  *)
(* quantified class excludes (\s after [^\s]+, "[" after \s+, "]" after    *)
(* [^\]]+), so backtracking to a shorter run can never succeed: each run   *)
(* is its maximal run.                                                     *)
(***************************************************************************)
uploadResponseRegexAt(s, i) ==
    LET p == IF HasAt(s, i, "https") THEN i + 5 ELSE i + 4   \* after https?
        u == p + 3                                           \* after ://
        e == NonSpaceRunEnd(s, u)                            \* after [^\s]+
        w == SpaceRunEnd(s, e)                               \* after \s+
        l == NonBracketRunEnd(s, w + 1)                      \* after [^\]]+
    IN  IF /\ HasAt(s, i, "http")
           /\ HasAt(s, p, "://")
           /\ e > u
           /\ w > e
           /\ At(s, w) = "["
           /\ l > w + 1
           /\ At(s, l) = "]"
        THEN [ok |-> TRUE, from |-> i, to |-> l,
              g1 |-> Slice(s, i, e - 1), g2 |-> Slice(s, w + 1, l - 1)]
        ELSE NoMatch

RECURSIVE FindAllUpload(_, _)
\* uploadResponseRegex.FindAllStringSubmatch(s, -1) from position pos on: the
\* leftmost match, then the search goes on after it (no match is empty).
FindAllUpload(s, pos) ==
    IF pos > Len(s) THEN << >>
    ELSE LET m == uploadResponseRegexAt(s, pos)
         IN  IF m.ok THEN <<m>> \o FindAllUpload(s, m.to + 1)
             ELSE FindAllUpload(s, pos + 1)

(***************************************************************************)
(* hashsumResponseRegex = ([0-9a-zA-Z]+)\s+\(([^\]]+)\)                    *)
(*                                                                         *)
(* The second group's class is [^\]], not [^)]: it runs over ")" as well,  *)
(* and being greedy it is cut back to the last ")" of its run.             *)
(***************************************************************************)
hashsumResponseRegexAt(s, i) ==
    LET e == AlnumRunEnd(s, i)                               \* after [0-9a-zA-Z]+
        w == SpaceRunEnd(s, e)                               \* after \s+
        r == NonBracketRunEnd(s, w + 1)                      \* after [^\]]+, greedy
        closes == {k \in (w + 2)..(r - 1) : At(s, k) = ")"}
    IN  IF /\ i >= 1
           /\ e > i
           /\ w > e
           /\ At(s, w) = "("
           /\ closes # {}
        THEN LET k == CHOOSE a \in closes : \A b \in closes : a >= b
             IN  [ok |-> TRUE, from |-> i, to |-> k,
                  g1 |-> Slice(s, i, e - 1), g2 |-> Slice(s, w + 1, k - 1)]
        ELSE NoMatch

RECURSIVE FindHashsum(_, _)
\* The leftmost match of hashsumResponseRegex at or after pos.
FindHashsum(s, pos) ==
    IF pos > Len(s) THEN NoMatch
    ELSE LET m == hashsumResponseRegexAt(s, pos)
         IN  IF m.ok THEN m ELSE FindHashsum(s, pos + 1)

\* hashsumResponseRegex.FindStringSubmatch(s): the leftmost match as
\* <<whole, group 1, group 2>>, and nil (the empty slice) when there is none.
FindStringSubmatchHashsum(s) ==
    LET m == FindHashsum(s, 1)
    IN  IF m.ok THEN <<Slice(s, m.from, m.to), m.g1, m.g2>> ELSE << >>

(***************************************************************************)
(* strconv and net/url                                                     *)
(***************************************************************************)

\* The printable ASCII characters in code order: 32 (space) to 95, and 97 to
\* 126 (a string of the model cannot hold 96, the grave accent).
AsciiLow == " !\"#$%&'()*+,-./0123456789:;<=>?@ABCDEFGHIJKLMNOPQRSTUVWXYZ[\\]^_"

AsciiHigh == "abcdefghijklmnopqrstuvwxyz{|}~"

HexDigits == "0123456789ABCDEF"

\* The code of each printable ASCII character.
CodeOf ==
    [c \in CharsOf(AsciiLow) \cup CharsOf(AsciiHigh) |->
        IF c \in CharsOf(AsciiLow)
        THEN 31 + (CHOOSE i \in 1..Len(AsciiLow) : At(AsciiLow, i) = c)
        ELSE 96 + (CHOOSE i \in 1..Len(AsciiHigh) : At(AsciiHigh, i) = c)]

CharCode(c) == CodeOf[c]

\* The character of a code, "" when the code is not one of the above.
CharOf(code) ==
    IF code >= 32 /\ code <= 95 THEN At(AsciiLow, code - 31)
    ELSE IF code >= 97 /\ code <= 126 THEN At(AsciiHigh, code - 96)
    ELSE ""

RECURSIVE FormatUint(_)
\* strconv.FormatUint(n, 10).
FormatUint(n) ==
    IF n < 10 THEN At(Digits, n + 1)
    ELSE FormatUint(n \div 10) \o At(Digits, (n % 10) + 1)

\* net/url shouldEscape in encodeQueryComponent mode: what stays as it is.
IsUnreserved(c) == IsAlnum(c) \/ c \in {"-", "_", ".", "~"}

RECURSIVE QueryEscape(_)
\* url.QueryEscape.
QueryEscape(s) ==
    IF s = "" THEN ""
    ELSE LET c == At(s, 1)
             e == IF IsUnreserved(c) THEN c
                  ELSE IF c = " " THEN "+"
                  ELSE "%" \o At(HexDigits, (CharCode(c) \div 16) + 1)
                           \o At(HexDigits, (CharCode(c) % 16) + 1)
         IN  e \o QueryEscape(Slice(s, 2, Len(s)))

\* The value of a hex digit, -1 for any other character.
HexValue(c) ==
    IF c \in CharsOf(HexDigits)
    THEN (CHOOSE i \in 1..16 : At(HexDigits, i) = c) - 1
    ELSE IF c \in CharsOf("abcdef")
    THEN (CHOOSE i \in 1..6 : At("abcdef", i) = c) + 9
    ELSE -1

RECURSIVE QueryUnescape(_)
\* url.QueryUnescape as [ok, s]: "+" is a space, %XX the character of that
\* code; a % that two hex digits do not follow is an error.  Codes outside
\* the printable ASCII range are not modelled (reported as an error).
QueryUnescape(s) ==
    IF s = "" THEN [ok |-> TRUE, s |-> ""]
    ELSE LET c == At(s, 1)
         IN  IF c = "%"
             THEN LET hi == HexValue(At(s, 2))
                      lo == HexValue(At(s, 3))
                      code == hi * 16 + lo
                      rest == QueryUnescape(Slice(s, 4, Len(s)))
                  IN  IF hi < 0 \/ lo < 0 \/ CharOf(code) = "" \/ ~rest.ok
                      THEN [ok |-> FALSE, s |-> ""]
                      ELSE [ok |-> TRUE, s |-> CharOf(code) \o rest.s]
             ELSE LET rest == QueryUnescape(Slice(s, 2, Len(s)))
                  IN  IF ~rest.ok THEN rest
                      ELSE [ok |-> TRUE,
                            s |-> (IF c = "+" THEN " " ELSE c) \o rest.s]

\* The index of the first c in s at or after i, Len(s) + 1 when there is none.
RECURSIVE IndexFrom(_, _, _)
IndexFrom(s, c, i) ==
    IF i > Len(s) \/ At(s, i) = c THEN i ELSE IndexFrom(s, c, i + 1)

\* url.Values: a function from the keys present to their values, in order.
EmptyValues == [k \in {} |-> << >>]

\* url.Values.Add: the value is appended to the key's values.
ValuesAdd(v, key, value) ==
    [k \in (DOMAIN v) \cup {key} |->
        IF k = key THEN (IF k \in DOMAIN v THEN v[k] ELSE << >>) \o <<value>>
        ELSE v[k]]

\* url.Values.Set: the key's values are replaced by the one value.
ValuesSet(v, key, value) ==
    [k \in (DOMAIN v) \cup {key} |-> IF k = key THEN <<value>> ELSE v[k]]

RECURSIVE ParseQuery(_)
\* url.ParseQuery as URL.Query calls it: the pairs between "&", each split at
\* its first "="; an empty pair is skipped, and so is (the error being
\* dropped by Query) a pair holding ";" or a bad escape.
ParseQuery(q) ==
    IF q = "" THEN EmptyValues
    ELSE LET amp  == IndexFrom(q, "&", 1)
             pair == Slice(q, 1, amp - 1)
             rest == ParseQuery(Slice(q, amp + 1, Len(q)))
             eq   == IndexFrom(pair, "=", 1)
             key  == QueryUnescape(Slice(pair, 1, eq - 1))
             val  == QueryUnescape(Slice(pair, eq + 1, Len(pair)))
         IN  IF pair = "" \/ Contains(pair, ";") \/ ~key.ok \/ ~val.ok
             THEN rest
             ELSE [k \in (DOMAIN rest) \cup {key.s} |->
                     IF k = key.s
                     THEN <<val.s>> \o (IF k \in DOMAIN rest THEN rest[k] ELSE << >>)
                     ELSE rest[k]]

RECURSIVE StrLess(_, _)
\* a < b as Go compares strings (byte-wise).
StrLess(a, b) ==
    IF b = "" THEN FALSE
    ELSE IF a = "" THEN TRUE
    ELSE IF At(a, 1) = At(b, 1) THEN StrLess(Slice(a, 2, Len(a)), Slice(b, 2, Len(b)))
    ELSE CharCode(At(a, 1)) < CharCode(At(b, 1))

RECURSIVE EncodePairs(_, _)
\* "key=v1&key=v2" for one key of url.Values.Encode.
EncodePairs(key, vals) ==
    IF vals = << >> THEN ""
    ELSE QueryEscape(key) \o "=" \o QueryEscape(Head(vals))
         \o (IF Len(vals) > 1 THEN "&" \o EncodePairs(key, Tail(vals)) ELSE "")

RECURSIVE EncodeKeys(_, _)
EncodeKeys(v, keys) ==
    IF keys = {} THEN ""
    ELSE LET k == CHOOSE a \in keys : \A b \in keys : a = b \/ StrLess(a, b)
             rest == EncodeKeys(v, keys \ {k})
         IN  EncodePairs(k, v[k]) \o (IF rest = "" THEN "" ELSE "&" \o rest)

\* url.Values.Encode: "URL encoded" form, sorted by key.
ValuesEncode(v) == EncodeKeys(v, DOMAIN v)

\* A parsed URL (url.URL), and the result of a failed parse.
NoURL == [Scheme |-> "", Host |-> "", Path |-> "", RawQuery |-> ""]

\* Whether s holds an ASCII control character (of those a string here has).
HasCTL(s) == CharsOf(s) \cap {"\t", "\n", "\r", "\f"} # {}

RECURSIVE SchemeRunEnd(_, _)
\* Where the run of scheme characters that starts at i stops.
SchemeRunEnd(s, i) ==
    IF i <= Len(s) /\ (IsAlnum(At(s, i)) \/ At(s, i) \in {"+", "-", "."})
    THEN SchemeRunEnd(s, i + 1) ELSE i

\* net/url getScheme: the length of the scheme of raw, 0 when it has none,
\* -1 for "missing protocol scheme" (raw starts with a colon).
SchemeLen(raw) ==
    LET stop == SchemeRunEnd(raw, 1)
    IN  IF At(raw, 1) = ":" THEN -1
        ELSE IF At(raw, stop) = ":" /\ At(raw, 1) \notin CharsOf(Digits)
        THEN stop - 1
        ELSE 0

\* url.Parse, once the scheme is split off: rest is what is left before the
\* first "?", and slash where its path starts (after "//" and the host).
ParseAuthority(scheme, rest, query, slash) ==
    [Scheme |-> scheme, Host |-> Slice(rest, 3, slash - 1),
     Path |-> Slice(rest, slash, Len(rest)), RawQuery |-> query]

ParseRest(scheme, rest, query) ==
    IF HasAt(rest, 1, "//")
    THEN ParseAuthority(scheme, rest, query, IndexFrom(rest, "/", 3))
    ELSE [Scheme |-> scheme, Host |-> "", Path |-> rest, RawQuery |-> query]

ParseQuestion(scheme, rest0, qm) ==
    ParseRest(scheme, Slice(rest0, 1, qm - 1), Slice(rest0, qm + 1, Len(rest0)))

ParseScheme(raw, n) ==
    IF n > 0
    THEN ParseQuestion(Slice(raw, 1, n), Slice(raw, n + 2, Len(raw)),
                       IndexFrom(raw, "?", n + 2) - n - 1)
    ELSE ParseQuestion("", raw, IndexFrom(raw, "?", 1))

ParseChecked(raw, n, u) ==
    IF HasCTL(raw) \/ n < 0 \/ Contains(u.Host, " ")
    THEN [err |-> TRUE, url |-> NoURL]
    ELSE [err |-> FALSE, url |-> u]

\* url.Parse as [err, url], for a string without fragment or user info: the
\* scheme, then "//" and the host up to the next "/", the path, and the query
\* after the first "?".  It fails on a control character, on a leading colon
\* and on a space in the host.
url_Parse(raw) == ParseChecked(raw, SchemeLen(raw), ParseScheme(raw, SchemeLen(raw)))

\* URL.String, for the URLs url_Parse gives (paths need no escaping).
url_String(u) ==
    (IF u.Scheme # "" THEN u.Scheme \o ":" ELSE "")
    \o (IF u.Scheme # "" \/ u.Host # ""
        THEN (IF u.Host # "" \/ u.Path # "" THEN "//" ELSE "") \o u.Host
        ELSE "")
    \o (IF u.Path # "" /\ At(u.Path, 1) # "/" /\ u.Host # "" THEN "/" ELSE "")
    \o u.Path
    \o (IF u.RawQuery # "" THEN "?" \o u.RawQuery ELSE "")

RECURSIVE SplitPath(_)
\* strings.Split(p, "/").
SplitPath(p) ==
    LET i == IndexFrom(p, "/", 1)
    IN  IF i > Len(p) THEN <<p>>
        ELSE <<Slice(p, 1, i - 1)>> \o SplitPath(Slice(p, i + 1, Len(p)))

RECURSIVE CleanSegments(_, _)
\* path.Clean on a rooted path, by segments: "" and "." are dropped, ".."
\* drops the segment before it (and itself at the root).
CleanSegments(segs, acc) ==
    IF segs = << >> THEN acc
    ELSE LET h == Head(segs)
         IN  IF h = "" \/ h = "." THEN CleanSegments(Tail(segs), acc)
             ELSE IF h = ".."
             THEN CleanSegments(Tail(segs),
                                IF acc = << >> THEN acc
                                ELSE SubSeq(acc, 1, Len(acc) - 1))
             ELSE CleanSegments(Tail(segs), Append(acc, h))

RECURSIVE JoinSegments(_)
JoinSegments(segs) ==
    IF segs = << >> THEN ""
    ELSE "/" \o Head(segs) \o JoinSegments(Tail(segs))

RECURSIVE JoinElems(_)
JoinElems(elems) ==
    IF elems = << >> THEN ""
    ELSE Head(elems) \o "/" \o JoinElems(Tail(elems))

\* A cleaned rooted path: the root itself when no segment is left.
Rooted(p) == IF p = "" THEN "/" ELSE p

\* path.Join of elements the first of which is rooted.
path_Join(elems) ==
    Rooted(JoinSegments(CleanSegments(SplitPath(JoinElems(elems)), << >>)))

\* p[1:].
DropFirst(p) == Slice(p, 2, Len(p))

\* URL.JoinPath once the elements are joined to p0: a trailing slash of the
\* last element is kept.
SetJoinedPath(u, last, p0) ==
    url_String([u EXCEPT !.Path = IF HasSuffix(last, "/") /\ ~HasSuffix(p0, "/")
                                  THEN p0 \o "/" ELSE p0])

\* URL.JoinPath(elem...): the URL's path (made rooted for the join, and cut
\* back after it) joined with the elements and cleaned.
URLJoinPath(u, elem) ==
    IF HasAt(u.Path, 1, "/")
    THEN SetJoinedPath(u, elem[Len(elem)], path_Join(<<u.Path>> \o elem))
    ELSE SetJoinedPath(u, elem[Len(elem)],
                       DropFirst(path_Join(<<"/" \o u.Path>> \o elem)))

JoinParsed(parsed, elem) ==
    IF parsed.err THEN [err |-> TRUE, s |-> ""]
    ELSE [err |-> FALSE, s |-> URLJoinPath(parsed.url, elem)]

\* url.JoinPath(base, elem...) as [err, s]; scheme, host and query are the
\* base's.
url_JoinPath(base, elem) == JoinParsed(url_Parse(base), elem)

(***************************************************************************)
(* oshi.go: constants, values and the pure methods                         *)
(***************************************************************************)

defaultEndpoint == "https://oshi.at"

expire == "expire"

autodestroy == "autodestroy"

randomizefn == "randomizefn"

filename == "filename"

shorturl == "shorturl"

onion == "onion"

hashsum == "hashsum"

hashsumMatches == 3

StatusOK == 200

\* The error values an operation returns.  "wrapped" is fmt.Errorf("%w", err)
\* of an error of net/url, net/http or io; "*Error" is &Error{...};
\* "ErrWrongResponse" is fmt.Errorf("%w: %s", ErrWrongResponse, body).
NilError == [kind |-> "nil", StatusCode |-> 0, Message |-> ""]

WrappedError(what) == [kind |-> "wrapped", StatusCode |-> 0, Message |-> what]

ServiceError(code, body) ==
    [kind |-> "*Error", StatusCode |-> code, Message |-> body]

WrongResponseError(body) ==
    [kind |-> "ErrWrongResponse", StatusCode |-> 0,
     Message |-> "wrong response" \o ": " \o body]

\* NewImage: the bytes are wrapped in a bytes.Reader (its data s and its read
\* index i); the other fields are stored as given.
NewImage(file, name, exp, destroy, randomize, short) ==
    [file        |-> [s |-> file, i |-> 0],
     filename    |-> name,
     expire      |-> exp,
     autodestroy |-> destroy,
     randomizefn |-> randomize,
     shorturl    |-> short]

\* WithEndpoint(endpoint) applied to a client.
WithEndpoint(endpoint, client) == [client EXCEPT !.endpoint = endpoint]

RECURSIVE ApplyOptions(_, _)
ApplyOptions(client, opts) ==
    IF opts = << >> THEN client
    ELSE ApplyOptions(WithEndpoint(Head(opts), client), Tail(opts))

\* NewClient(httpClient, opts...): the default endpoint, then every option in
\* order.  An option is the endpoint of a WithEndpoint.
NewClient(httpClient, opts) ==
    ApplyOptions([endpoint |-> defaultEndpoint, httpClient |-> httpClient], opts)

EmptyUploadResponse == [Admin |-> "", Download |-> "", TorDownload |-> ""]

EmptyHashsumResponse == [Algorithm |-> "", Hashsum |-> ""]

\* The body of parseUploadResponse's loop without strings.ToLower.
UploadMatchCaseSensitive(response, match) ==
    IF match.g2 = "admin" THEN [response EXCEPT !.Admin = match.g1]
    ELSE IF match.g2 = "download" THEN [response EXCEPT !.Download = match.g1]
    ELSE IF match.g2 = "tor download" THEN [response EXCEPT !.TorDownload = match.g1]
    ELSE response

\* The body of parseUploadResponse's loop for one match.
UploadMatch(response, match) ==
    LET url   == match.g1
        label == ToLower(match.g2)
    IN  IF label = "admin" THEN [response EXCEPT !.Admin = url]
        ELSE IF label = "download" THEN [response EXCEPT !.Download = url]
        ELSE IF label = "tor download" THEN [response EXCEPT !.TorDownload = url]
        ELSE response

RECURSIVE UploadMatches(_, _)
UploadMatches(response, matches) ==
    IF matches = << >> THEN response
    ELSE UploadMatches(UploadMatch(response, Head(matches)), Tail(matches))

\* parseUploadResponse filling the fields by the position of the match, not
\* by its label.
NthURL(matches, n) == IF Len(matches) >= n THEN matches[n].g1 ELSE ""

parseUploadResponsePositional(body) ==
    [Admin       |-> NthURL(FindAllUpload(body, 1), 1),
     Download    |-> NthURL(FindAllUpload(body, 1), 2),
     TorDownload |-> NthURL(FindAllUpload(body, 1), 3)]

\* Client.parseUploadResponse.
parseUploadResponse(body) ==
    UploadMatches(EmptyUploadResponse, FindAllUpload(body, 1))

\* parseHashsumResponse taking the groups the other way round.
HashsumSwapped(body, matches) ==
    IF Len(matches) < hashsumMatches
    THEN [val |-> EmptyHashsumResponse, err |-> WrongResponseError(body)]
    ELSE [val |-> [Algorithm |-> matches[2], Hashsum |-> matches[3]],
          err |-> NilError]

parseHashsumResponseSwapped(body) ==
    HashsumSwapped(body, FindStringSubmatchHashsum(body))

\* Client.parseHashsumResponse, as [val, err].
parseHashsumResponse(body) ==
    LET matches == FindStringSubmatchHashsum(body)
    IN  IF Len(matches) < hashsumMatches
        THEN [val |-> EmptyHashsumResponse, err |-> WrongResponseError(body)]
        ELSE [val |-> [Algorithm |-> matches[3], Hashsum |-> matches[2]],
              err |-> NilError]

\* query.Set without the if around it.
SetAlways(cond, query, key, value) == ValuesSet(query, key, value)

\* if cond { query.Set(key, value) }.
SetIf(cond, query, key, value) ==
    IF cond THEN ValuesSet(query, key, value) ELSE query

\* prepareUploadURL, lines 261-285, on the parsed endpoint u.
uploadQuery(u, img) ==
    url_String([u EXCEPT !.RawQuery = ValuesEncode(
        SetIf(img.shorturl,
          SetIf(img.randomizefn,
            SetIf(img.autodestroy,
              SetIf(img.expire > 0,
                SetIf(img.filename # filename,
                  ParseQuery(u.RawQuery),
                  filename, img.filename),
                expire, FormatUint(img.expire)),
              autodestroy, "1"),
            randomizefn, "1"),
          shorturl, "1"))])

prepareParsed(c, img, parsed) ==
    IF parsed.err
    THEN [url |-> "", err |-> WrappedError("url.Parse"), client |-> c]
    ELSE [url |-> uploadQuery(parsed.url, img), err |-> NilError, client |-> c]

\* prepareUploadURL keeping the URL it built as the client's endpoint.
prepareUploadURLStoring(c, img) ==
    [prepareParsed(c, img, url_Parse(c.endpoint)) EXCEPT
        !.client = [c EXCEPT !.endpoint =
                       prepareParsed(c, img, url_Parse(c.endpoint)).url]]

\* Client.prepareUploadURL, as [url, err, client]: client is the receiver
\* after the call, which the method leaves as it was.
prepareUploadURL(c, img) == prepareParsed(c, img, url_Parse(c.endpoint))

(***************************************************************************)
(* net/http, as far as the client uses it                                  *)
(***************************************************************************)

\* http.NoBody.  A request body is the reader of the Image slot with
\* ContentLength bytes left; start is the index the reader stood at when the
\* request was made, which is where the copy of the reader that the
\* request's GetBody returns starts.
NoBody == [slot |-> "", ContentLength |-> 0, start |-> 0]

NoRequest == [Method |-> "", URL |-> "", Body |-> NoBody]

NoResponse == [StatusCode |-> 0, Body |-> "", readErr |-> FALSE]

\* http.NewRequestWithContext(ctx, method, url, body), as [req, err]: it
\* fails on a nil context and on a URL url.Parse rejects.  A *bytes.Reader
\* body sets ContentLength to what the reader has left and GetBody to a copy
\* of the reader as it stands, and a reader with nothing left becomes
\* http.NoBody.
NewRequestWithContext(ctx, method, url, body) ==
    IF ctx = "nil" \/ url_Parse(url).err
    THEN [req |-> NoRequest, err |-> WrappedError("http.NewRequest")]
    ELSE [req |-> [Method |-> method, URL |-> url,
                   Body |-> IF body.ContentLength = 0 THEN NoBody ELSE body],
          err |-> NilError]

(***************************************************************************)
(* State                                                                   *)
(***************************************************************************)

VARIABLES
    client,       \* the Client: [endpoint, httpClient]
    constructed,  \* history: the Client as NewClient returned it
    images,       \* the Images made so far, by the caller's name for each
    wire,         \* history: per Image, the indices of the bytes read from its
                  \* reader, in the order they were read
    calls         \* per call site, its current (or last) call of an operation

vars == <<client, constructed, images, wire, calls>>

\* A call site that has not called yet.
IdleCall ==
    [pc     |-> "idle",      \* idle, sent (in Do), received (Do returned a
                             \* response), done (the operation has returned)
     op     |-> "",
     ctx    |-> "",
     arg    |-> "",          \* Upload: the Image; GetHashsum: file; Delete: adminURL
     req    |-> NoRequest,   \* the request handed to httpClient.Do
     resp   |-> NoResponse,  \* what Do returned
     dos    |-> 0,           \* history: calls of httpClient.Do
     before |-> 0,           \* history: bytes of the Image read before the call
     sent   |-> << >>,       \* history: the indices of the bytes this call sent
     read   |-> FALSE,       \* history: io.ReadAll(resp.Body) was called
     parsed |-> {},          \* history: the parsers called
     val    |-> "",          \* the value returned
     err    |-> NilError]    \* the error returned

\* The call site p can start a call.
CanCall(p) == calls[p].pc \in {"idle", "done"}

\* An Upload of the Image is between NewRequest and the return of Do: the
\* transport may be reading its bytes.Reader, which is not safe for use by
\* two goroutines, so the Image is its caller's alone until Do returns.
InFlight(slot) ==
    \E q \in DOMAIN calls :
        calls[q].pc = "sent" /\ calls[q].op = "Upload" /\ calls[q].arg = slot

\* The zero value an operation returns beside an error.
ZeroValue(op) ==
    IF op = "Upload" THEN EmptyUploadResponse
    ELSE IF op = "GetHashsum" THEN EmptyHashsumResponse
    ELSE ""

\* The operation returns (val, err) to call site p without a request.
ReturnEarly(p, op, ctx, arg, val, err) ==
    calls' = [calls EXCEPT ![p] =
                [IdleCall EXCEPT !.pc = "done", !.op = op, !.ctx = ctx,
                                 !.arg = arg, !.val = val, !.err = err]]

\* The operation hands req to httpClient.Do.
Send(p, op, ctx, arg, req) ==
    calls' = [calls EXCEPT ![p] =
                [IdleCall EXCEPT !.pc = "sent", !.op = op, !.ctx = ctx,
                                 !.arg = arg, !.req = req, !.dos = 1,
                                 !.before = IF op = "Upload" THEN Len(wire[arg])
                                            ELSE 0]]

(***************************************************************************)
(* The operations up to httpClient.Do                                      *)
(***************************************************************************)

\* A caller makes an Image (NewImage); slot names the new object.
MakeImage(U, slot) ==
    /\ slot \notin DOMAIN images
    /\ \E file \in U.files, a \in U.imageArgs :
          images' = [k \in (DOMAIN images) \cup {slot} |->
                        IF k = slot
                        THEN NewImage(file, a.filename, a.expire, a.autodestroy,
                                      a.randomizefn, a.shorturl)
                        ELSE images[k]]
    /\ UNCHANGED <<client, constructed, wire, calls>>

\* The body of an Upload that rewinds the Image's reader first.
requestBodyRewound(img) == [img.file EXCEPT !.i = 0]

\* The body Upload hands to NewRequest: img.file, the Image's own reader, at
\* the index it stands at.
requestBody(img) == img.file

\* The operation has built its URL, or failed to (uerr), and goes on to r,
\* its http.NewRequestWithContext: it returns either error, and else hands
\* the request to httpClient.Do.
Request(p, op, ctx, arg, uerr, r) ==
    IF uerr.kind # "nil" THEN ReturnEarly(p, op, ctx, arg, ZeroValue(op), uerr)
    ELSE IF r.err.kind # "nil" THEN ReturnEarly(p, op, ctx, arg, ZeroValue(op), r.err)
    ELSE Send(p, op, ctx, arg, r.req)

UploadRequest(p, ctx, slot, u, file) ==
    /\ client' = u.client
    /\ images' = IF u.err.kind # "nil" THEN images
                 ELSE [images EXCEPT ![slot].file = file]
    /\ Request(p, "Upload", ctx, slot, u.err,
               NewRequestWithContext(ctx, "PUT", u.url,
                   [slot |-> slot, ContentLength |-> Len(file.s) - file.i,
                    start |-> file.i]))

\* Client.Upload, lines 224-234.
Upload(U, p) ==
    /\ CanCall(p)
    /\ \E ctx \in U.ctxs, slot \in DOMAIN images :
          /\ ~InFlight(slot)
          /\ UploadRequest(p, ctx, slot, prepareUploadURL(client, images[slot]),
                           requestBody(images[slot]))
    /\ UNCHANGED <<constructed, wire>>

JoinedRequest(p, op, ctx, arg, u) ==
    Request(p, op, ctx, arg,
            IF u.err THEN WrappedError("url.JoinPath") ELSE NilError,
            NewRequestWithContext(ctx, "GET", u.s, NoBody))

\* Client.GetHashsum, lines 150-160.
GetHashsum(U, p) ==
    /\ CanCall(p)
    /\ \E ctx \in U.ctxs, file \in U.fileIDs :
          JoinedRequest(p, "GetHashsum", ctx, file,
                        url_JoinPath(client.endpoint, <<hashsum, file>>))
    /\ UNCHANGED <<client, constructed, images, wire>>

\* Client.Delete, lines 196-201.
Delete(U, p) ==
    /\ CanCall(p)
    /\ \E ctx \in U.ctxs, adminURL \in U.adminURLs :
          Request(p, "Delete", ctx, adminURL, NilError,
                  NewRequestWithContext(ctx, "DELETE", adminURL, NoBody))
    /\ UNCHANGED <<client, constructed, images, wire>>

\* Client.GetTorEndpoint, lines 117-127.
GetTorEndpoint(U, p) ==
    /\ CanCall(p)
    /\ \E ctx \in U.ctxs :
          JoinedRequest(p, "GetTorEndpoint", ctx, "",
                        url_JoinPath(client.endpoint, <<onion>>))
    /\ UNCHANGED <<client, constructed, images, wire>>

(***************************************************************************)
(* The transport, and the operations after httpClient.Do                   *)
(***************************************************************************)

\* The transport reads n more bytes of the request's body, the reader of the
\* Image slot.
ReadPayload(p, n) ==
    LET slot == calls[p].req.Body.slot
        f    == images[slot].file
    IN  IF slot = ""
        THEN n = 0 /\ UNCHANGED <<images, wire>>
        ELSE /\ n <= Len(f.s) - f.i
             /\ images' = [images EXCEPT ![slot].file.i = f.i + n]
             /\ wire' = [wire EXCEPT ![slot] =
                            @ \o [k \in 1..n |-> f.i + k]]

\* An operation that calls httpClient.Do again when it returns an error.
onDoErrorRetry(c) == [c EXCEPT !.dos = c.dos + 1]

\* What each operation does when httpClient.Do returns an error: it returns
\* it, wrapped (lines 128-130, 161-163, 202-204, 235-237).
onDoError(c) ==
    [c EXCEPT !.pc = "done", !.val = ZeroValue(c.op),
              !.err = WrappedError("httpClient.Do")]

\* What a call has sent when httpClient.Do returns: the n bytes read from the
\* request's body and, when a redirect (307, 308) made the http.Client send
\* the request again, m bytes of the copy that GetBody returns.
Sent(c, n, m) ==
    [c EXCEPT !.sent = @ \o [k \in 1..n |-> images[c.req.Body.slot].file.i + k]
                         \o [k \in 1..m |-> c.req.Body.start + k]]

\* httpClient.Do fails (no connection, the context is cancelled, ...), having
\* sent any part of the payload.
DoError(U, p) ==
    /\ calls[p].pc = "sent"
    /\ \E n, m \in 0..calls[p].req.Body.ContentLength :
          /\ ReadPayload(p, n)
          /\ calls' = [calls EXCEPT ![p] = onDoError(Sent(calls[p], n, m))]
    /\ UNCHANGED <<client, constructed>>

\* httpClient.Do returns a response: a status, and a body that io.ReadAll
\* will read in full (Body) or fail on (readErr).
DoResponse(U, p) ==
    /\ calls[p].pc = "sent"
    /\ \E n, m \in 0..calls[p].req.Body.ContentLength,
          resp \in U.responses[calls[p].op] :
          /\ ReadPayload(p, n)
          /\ calls' = [calls EXCEPT ![p] =
                          [Sent(calls[p], n, m) EXCEPT !.pc = "received",
                                                       !.resp = resp]]
    /\ UNCHANGED <<client, constructed>>

\* An operation's outcome: the value and error returned, whether the body was
\* read and the parsers called.
Outcome(val, err, read, parsed) ==
    [val |-> val, err |-> err, read |-> read, parsed |-> parsed]

\* Client.Upload, lines 240-252, taking every status below 400 for a success.
uploadAfterDoAccept2xx(resp) ==
    IF resp.readErr
    THEN Outcome(EmptyUploadResponse, WrappedError("io.ReadAll"), TRUE, {})
    ELSE IF resp.StatusCode >= 400
    THEN Outcome(EmptyUploadResponse, ServiceError(resp.StatusCode, resp.Body),
                 TRUE, {})
    ELSE Outcome(parseUploadResponse(resp.Body), NilError, TRUE,
                 {"parseUploadResponse"})

\* Client.Upload, lines 240-252.
uploadAfterDo(resp) ==
    IF resp.readErr
    THEN Outcome(EmptyUploadResponse, WrappedError("io.ReadAll"), TRUE, {})
    ELSE IF resp.StatusCode # StatusOK
    THEN Outcome(EmptyUploadResponse, ServiceError(resp.StatusCode, resp.Body),
                 TRUE, {})
    ELSE Outcome(parseUploadResponse(resp.Body), NilError, TRUE,
                 {"parseUploadResponse"})

\* Client.GetHashsum, lines 166-178, dropping the error of io.ReadAll.
getHashsumAfterDoUnchecked(resp) ==
    IF resp.StatusCode # StatusOK
    THEN Outcome(EmptyHashsumResponse, ServiceError(resp.StatusCode, resp.Body),
                 TRUE, {})
    ELSE Outcome(parseHashsumResponse(resp.Body).val,
                 parseHashsumResponse(resp.Body).err, TRUE,
                 {"parseHashsumResponse"})

\* Client.GetHashsum, lines 166-178.
getHashsumAfterDo(resp) ==
    IF resp.readErr
    THEN Outcome(EmptyHashsumResponse, WrappedError("io.ReadAll"), TRUE, {})
    ELSE IF resp.StatusCode # StatusOK
    THEN Outcome(EmptyHashsumResponse, ServiceError(resp.StatusCode, resp.Body),
                 TRUE, {})
    ELSE LET r == parseHashsumResponse(resp.Body)
         IN  Outcome(r.val, r.err, TRUE, {"parseHashsumResponse"})

\* Client.Delete, lines 207-219: the body is read only when the status is
\* not 200.
deleteAfterDo(resp) ==
    IF resp.StatusCode # StatusOK
    THEN IF resp.readErr
         THEN Outcome("", WrappedError("io.ReadAll"), TRUE, {})
         ELSE Outcome("", ServiceError(resp.StatusCode, resp.Body), TRUE, {})
    ELSE Outcome("", NilError, FALSE, {})

\* Client.GetTorEndpoint, lines 133-145.
getTorEndpointAfterDo(resp) ==
    IF resp.readErr
    THEN Outcome("", WrappedError("io.ReadAll"), TRUE, {})
    ELSE IF resp.StatusCode # StatusOK
    THEN Outcome("", ServiceError(resp.StatusCode, resp.Body), TRUE, {})
    ELSE Outcome(resp.Body, NilError, TRUE, {})

\* The operation of call site p returns o.
Return(p, o) ==
    /\ calls' = [calls EXCEPT ![p] =
                    [calls[p] EXCEPT !.pc = "done", !.val = o.val, !.err = o.err,
                                     !.read = o.read, !.parsed = o.parsed]]
    /\ UNCHANGED <<client, constructed, images, wire>>

UploadReturn(p) ==
    /\ calls[p].pc = "received" /\ calls[p].op = "Upload"
    /\ Return(p, uploadAfterDo(calls[p].resp))

GetHashsumReturn(p) ==
    /\ calls[p].pc = "received" /\ calls[p].op = "GetHashsum"
    /\ Return(p, getHashsumAfterDo(calls[p].resp))

DeleteReturn(p) ==
    /\ calls[p].pc = "received" /\ calls[p].op = "Delete"
    /\ Return(p, deleteAfterDo(calls[p].resp))

GetTorEndpointReturn(p) ==
    /\ calls[p].pc = "received" /\ calls[p].op = "GetTorEndpoint"
    /\ Return(p, getTorEndpointAfterDo(calls[p].resp))

(***************************************************************************)
(* Specifications                                                          *)
(*                                                                         *)
(* A universe U names the inputs of a specification: the call sites, the   *)
(* names the callers keep Images under, the arguments they pass, the       *)
(* options of NewClient and the responses of the transport.                *)
(***************************************************************************)

Init(U) ==
    /\ client \in {NewClient("httpClient", opts) : opts \in U.options}
    /\ constructed = client
    /\ images = [k \in {} |-> NewImage("", "", 0, FALSE, FALSE, FALSE)]
    /\ wire = [k \in U.slots |-> << >>]
    /\ calls = [p \in U.callers |-> IdleCall]

Next(U) ==
    \/ \E slot \in U.slots : MakeImage(U, slot)
    \/ \E p \in U.callers :
          \/ Upload(U, p)
          \/ GetHashsum(U, p)
          \/ Delete(U, p)
          \/ GetTorEndpoint(U, p)
          \/ DoError(U, p)
          \/ DoResponse(U, p)
          \/ UploadReturn(p)
          \/ GetHashsumReturn(p)
          \/ DeleteReturn(p)
          \/ GetTorEndpointReturn(p)

\* The longest file an Image is made of.
MaxFileLen == 1

\* The first n bytes of a file.
FileOf(n) == Slice("PNG......", 1, n)

Response(status, body, readErr) ==
    [StatusCode |-> status, Body |-> body, readErr |-> readErr]

ThreeLines == "http://a/1 [Admin]\nhttp://a/2 [Download]\nhttp://a/3 [Tor download]\n"

\* The Image of the README and of the tests.
ReadmeImage ==
    [filename |-> "name_test", expire |-> 5, autodestroy |-> TRUE,
     randomizefn |-> FALSE, shorturl |-> FALSE]

\* Two call sites on one Client and two Images, either of which any call
\* site may upload.
UMain ==
    [callers   |-> {"a", "b"},
     slots     |-> {"img1", "img2"},
     files     |-> {FileOf(MaxFileLen)},
     imageArgs |-> {ReadmeImage},
     ctxs      |-> {"ctx"},
     fileIDs   |-> {"abc"},
     adminURLs |-> {"https://oshi.at/a/abc"},
     options   |-> {<< >>, <<"https://oshi.at\n">>},
     responses |-> [op \in {"Upload", "GetHashsum", "Delete", "GetTorEndpoint"} |->
                      {Response(404, "not found", FALSE),
                       Response(200,
                                IF op = "Upload" THEN ThreeLines
                                ELSE IF op = "GetHashsum" THEN "deadbeef (sha256)"
                                ELSE IF op = "Delete" THEN ""
                                ELSE "oshiatwowvdbshka.onion",
                                FALSE)}]]

MainInit == Init(UMain)

MainNext == Next(UMain)

Spec == MainInit /\ [][MainNext]_vars

\* One call site, with every way an operation can fail before, in and after
\* httpClient.Do: a nil context, endpoints and admin URLs that do not parse,
\* statuses other than 200 (201 among them), bodies that cannot be read.
UOne ==
    [callers   |-> {"a"},
     slots     |-> {"img1"},
     files     |-> {FileOf(MaxFileLen)},
     imageArgs |-> {ReadmeImage},
     ctxs      |-> {"ctx", "nil"},
     fileIDs   |-> {"abc", ""},
     adminURLs |-> {"https://oshi.at/a/abc", "", "https://oshi.at/a/abc\n"},
     options   |-> {<< >>, <<"http://localhost:8080/api/">>, <<"https://oshi.at\n">>},
     responses |-> [op \in {"Upload", "GetHashsum", "Delete", "GetTorEndpoint"} |->
                      {Response(st, b, e) :
                          st \in {200, 201, 404, 500},
                          b \in {"", "deadbeef sha256",
                                 IF op = "Upload" THEN ThreeLines
                                 ELSE IF op = "GetHashsum" THEN "deadbeef (sha256)"
                                 ELSE "oshiatwowvdbshka.onion"},
                          e \in BOOLEAN}]]

OneInit == Init(UOne)

OneNext == Next(UOne)

SpecOne == OneInit /\ [][OneNext]_vars

(***************************************************************************)
(* Response bodies                                                         *)
(***************************************************************************)

\* The longest run of blanks and newlines between a URL and its label.
MaxWs == 2

\* The most lines of a body put together from UploadLines.
MaxLines == 3

\* The most pieces of a body put together from HashsumPieces.
MaxPieces == 3

RECURSIVE Blanks(_)
\* The strings of at most n blanks and newlines.
Blanks(n) ==
    IF n = 0 THEN {""}
    ELSE Blanks(n - 1) \cup {w \o c : w \in Blanks(n - 1), c \in {" ", "\n"}}

\* Whitespace between a URL and its label, between two lines, and around the
\* text.
Gaps == (Blanks(MaxWs) \ {""}) \cup {"\t", "\r\n"}

Seps == {"\n", "\r\n", "\n\n", " \n\t"}

Pads == {"", "\n", " \t"}

\* The three lines of an upload response, each label in four spellings.
CannedLines ==
    <<[url |-> "http://a/1", field |-> "Admin",
       label |-> <<"Admin", "ADMIN", "admin", "aDmIn">>],
      [url |-> "http://a/2", field |-> "Download",
       label |-> <<"Download", "DOWNLOAD", "download", "dOwNlOaD">>],
      [url |-> "http://a/3", field |-> "TorDownload",
       label |-> <<"Tor download", "TOR DOWNLOAD", "tor download", "tOr DoWnLoAd">>]>>

Line(k, style, gap) ==
    CannedLines[k].url \o gap \o "[" \o CannedLines[k].label[style] \o "]"

Orders == {o \in [1..3 -> 1..3] : \A i, j \in 1..3 : o[i] = o[j] => i = j}

ThreeLineBody(o, style, gap, sep, pad) ==
    pad \o Line(o[1], style, gap) \o sep \o Line(o[2], style, gap)
        \o sep \o Line(o[3], style, gap) \o pad

\* The three lines in every order, spelling and spacing.
ThreeLineBodies ==
    {ThreeLineBody(o, style, gap, sep, pad) :
        o \in Orders, style \in 1..4, gap \in Gaps, sep \in Seps, pad \in Pads}

\* Lines an upload response may hold: the three lines, a line with a label
\* the parser does not know, and lines that are no "<url> [<label>]".
UploadLines ==
    {"http://a/1 [Admin]", "https://a/2 [DOWNLOAD]", "http://a/3\t[Tor download]",
     "http://a/4 [Short]", "garbage [Admin]", "http://a/5[Download]",
     "http://a/6 [Admin", "ftp://a/7 [Download]"}

RECURSIVE JoinedLines(_)
\* The texts of at most n lines of UploadLines.
JoinedLines(n) ==
    IF n = 0 THEN {""}
    ELSE JoinedLines(n - 1)
         \cup {t \o l \o "\n" : t \in JoinedLines(n - 1), l \in UploadLines}

UploadBodies == ThreeLineBodies \cup JoinedLines(MaxLines)

HashsumPieces == {"deadbeef", "(sha256)", " ", "(", ")", "]", "-", "\n", "MD5"}

RECURSIVE JoinedPieces(_)
\* The texts of at most n pieces of HashsumPieces.
JoinedPieces(n) ==
    IF n = 0 THEN {""}
    ELSE JoinedPieces(n - 1)
         \cup {t \o x : t \in JoinedPieces(n - 1), x \in HashsumPieces}

HashsumBodies == JoinedPieces(MaxPieces)

\* One call site and the transport answering 200 with every body of
\* UploadBodies and HashsumBodies.
UParse ==
    [callers   |-> {"a"},
     slots     |-> {"img1"},
     files     |-> {""},
     imageArgs |-> {ReadmeImage},
     ctxs      |-> {"ctx"},
     fileIDs   |-> {"abc"},
     adminURLs |-> {"https://oshi.at/a/abc"},
     options   |-> {<< >>},
     responses |-> [op \in {"Upload", "GetHashsum", "Delete", "GetTorEndpoint"} |->
                      {Response(404, "not found", FALSE)}
                      \cup {Response(200, b, FALSE) :
                               b \in IF op = "Upload" THEN UploadBodies
                                     ELSE IF op = "GetHashsum" THEN HashsumBodies
                                     ELSE {"oshiatwowvdbshka.onion"}}]]

ParseInit == Init(UParse)

ParseNext == Next(UParse)

SpecParse == ParseInit /\ [][ParseNext]_vars

\* The largest expire of an Image.
MaxExpire == 5

\* One call site uploading Images of every setting of the directives, on the
\* default endpoint, on one given by two options and on one that has a query
\* of its own.
UURL ==
    [callers   |-> {"a"},
     slots     |-> {"img1"},
     files     |-> {FileOf(MaxFileLen)},
     imageArgs |-> [filename : {filename, "name_test", "a b&c"},
                    expire : 0..MaxExpire, autodestroy : BOOLEAN,
                    randomizefn : BOOLEAN, shorturl : BOOLEAN],
     ctxs      |-> {"ctx"},
     fileIDs   |-> {"abc"},
     adminURLs |-> {"https://oshi.at/a/abc"},
     options   |-> {<< >>,
                    <<"http://localhost", "http://localhost:8080/up/">>,
                    <<"https://oshi.at/?shorturl=0&expire=0&token=a%2Fb">>},
     responses |-> [op \in {"Upload", "GetHashsum", "Delete", "GetTorEndpoint"} |->
                      IF op = "Upload"
                      THEN {Response(200, ThreeLines, FALSE),
                            Response(200, ThreeLineBody(<<3, 1, 2>>, 2, "\t", "\r\n", ""),
                                     FALSE),
                            Response(404, "not found", FALSE)}
                      ELSE {Response(200,
                                     IF op = "GetHashsum" THEN "deadbeef (sha256)"
                                     ELSE "oshiatwowvdbshka.onion",
                                     FALSE)}]]

URLInit == Init(UURL)

URLNext == Next(UURL)

SpecURL == URLInit /\ [][URLNext]_vars

(***************************************************************************)
(* Properties of the operations                                            *)
(***************************************************************************)

\* The calls that have returned.
Returned == {p \in DOMAIN calls : calls[p].pc = "done"}

\* The calls that have a response, read or not.
Answered(p) == calls[p].dos > 0 /\ calls[p].resp # NoResponse

\* What the operation op does with a response.
afterDo(op, resp) ==
    IF op = "Upload" THEN uploadAfterDo(resp)
    ELSE IF op = "GetHashsum" THEN getHashsumAfterDo(resp)
    ELSE IF op = "Delete" THEN deleteAfterDo(resp)
    ELSE getTorEndpointAfterDo(resp)

\* The URL a joined request goes to, or the error of building it.
BuiltJoined(ctx, u) ==
    IF u.err THEN [url |-> "", err |-> WrappedError("url.JoinPath")]
    ELSE [url |-> u.s, err |-> NewRequestWithContext(ctx, "GET", u.s, NoBody).err]

\* The URL the upload request goes to, or the error of building it.
BuiltUpload(ctx, u) ==
    IF u.err.kind # "nil" THEN [url |-> "", err |-> u.err]
    ELSE [url |-> u.url, err |-> NewRequestWithContext(ctx, "PUT", u.url, NoBody).err]

\* The URL the call c builds when it runs alone on the Client as NewClient
\* returned it, or the error it returns when URL or request cannot be built.
SoloBuild(c) ==
    IF c.op = "Upload"
    THEN BuiltUpload(c.ctx, prepareUploadURL(constructed, images[c.arg]))
    ELSE IF c.op = "GetHashsum"
    THEN BuiltJoined(c.ctx, url_JoinPath(constructed.endpoint, <<hashsum, c.arg>>))
    ELSE IF c.op = "GetTorEndpoint"
    THEN BuiltJoined(c.ctx, url_JoinPath(constructed.endpoint, <<onion>>))
    ELSE [url |-> c.arg,
          err |-> NewRequestWithContext(c.ctx, "DELETE", c.arg, NoBody).err]

\* The calls that have started.
Started == {p \in DOMAIN calls : calls[p].pc # "idle"}

\* C1, as the specification states it: an operation that gets a response
\* with a status other than 200 returns a *Error with that status and the
\* whole body as its message, and calls no parser.
C1_NonOKIsServiceError ==
    \A p \in Returned :
        Answered(p) /\ calls[p].resp.StatusCode # StatusOK
        => /\ calls[p].err =
                 ServiceError(calls[p].resp.StatusCode, calls[p].resp.Body)
           /\ calls[p].parsed = {}

\* C1, as the code has it: an operation that gets a response with a status
\* other than 200 calls no parser; it returns a *Error with that status and
\* the whole body as its message when the body can be read, and the wrapped
\* error of io.ReadAll, which is no *Error, when it cannot.
C1_NonOKIsServiceErrorIfRead ==
    \A p \in Returned :
        Answered(p) /\ calls[p].resp.StatusCode # StatusOK
        => /\ calls[p].parsed = {}
           /\ calls[p].read
           /\ calls[p].err =
                 IF calls[p].resp.readErr THEN WrappedError("io.ReadAll")
                 ELSE ServiceError(calls[p].resp.StatusCode, calls[p].resp.Body)

\* A Delete answered 500 with a body has returned the *Error of both.
C1_Witness ==
    \E p \in Returned :
        /\ calls[p].op = "Delete"
        /\ calls[p].resp = Response(500, "deadbeef sha256", FALSE)
        /\ calls[p].err.kind = "*Error"
        /\ calls[p].err.StatusCode = 500
        /\ calls[p].err.Message = "deadbeef sha256"

\* A call that has returned, against solo, what it builds alone.
C7Call(c, solo) ==
    /\ c.err.kind \in {"nil", "wrapped", "*Error", "ErrWrongResponse"}
    /\ c.err.kind = "wrapped"
          <=> \/ solo.err.kind # "nil"
              \/ c.dos > 0 /\ c.resp = NoResponse
              \/ c.read /\ c.resp.readErr
    /\ c.err.kind = "*Error"
          => /\ c.dos > 0 /\ c.resp # NoResponse
             /\ c.resp.StatusCode # StatusOK
             /\ c.read /\ ~c.resp.readErr
    /\ c.err.kind = "ErrWrongResponse"
          => /\ c.op = "GetHashsum"
             /\ c.dos > 0 /\ c.resp # NoResponse
             /\ c.resp.StatusCode = StatusOK
    /\ c.err.kind = "nil"
          => /\ c.dos > 0 /\ c.resp # NoResponse
             /\ c.resp.StatusCode = StatusOK

\* C7: a call returns a wrapped error, which is neither a *Error nor
\* ErrWrongResponse, exactly when building the URL or the request failed,
\* httpClient.Do returned an error or reading the body failed; a *Error only
\* for a response with a status other than 200 whose body was read in full;
\* ErrWrongResponse only from GetHashsum on a 200 response; and no error only
\* on a 200 response.  Every call ends in one of the four.
C7_ErrorKinds ==
    \A p \in Returned : C7Call(calls[p], SoloBuild(calls[p]))

\* A GetHashsum answered 200 with a body that lacks the parentheses has
\* returned ErrWrongResponse.
C7_Witness ==
    \E p \in Returned :
        /\ calls[p].op = "GetHashsum"
        /\ calls[p].resp = Response(200, "deadbeef sha256", FALSE)
        /\ calls[p].err = WrongResponseError("deadbeef sha256")

\* A call that has started, against solo, what it builds alone.
C8Call(c, solo) ==
    IF solo.err.kind # "nil"
    THEN c.pc = "done" /\ c.dos = 0 /\ c.err = solo.err /\ c.val = ZeroValue(c.op)
    ELSE /\ c.dos = 1
         /\ c.req.URL = solo.url
         /\ c.pc = "done" /\ c.resp = NoResponse
               => c.err = WrappedError("httpClient.Do") /\ c.val = ZeroValue(c.op)
         /\ c.pc = "done" /\ c.resp # NoResponse
               => /\ c.val = afterDo(c.op, c.resp).val
                  /\ c.err = afterDo(c.op, c.resp).err

\* C8: no operation writes the Client's endpoint or httpClient, and under
\* every interleaving of the call sites each call's request URL and result
\* are those of the same call run alone on the Client as NewClient returned
\* it.
C8_ClientIsImmutable ==
    /\ client = constructed
    /\ \A p \in Started : C8Call(calls[p], SoloBuild(calls[p]))

\* Two Uploads of distinct Images overlap, one in httpClient.Do and one
\* holding its response, both sent to the URL of their Image.
C8_Witness ==
    /\ calls["a"].op = "Upload" /\ calls["a"].pc = "sent"
    /\ calls["b"].op = "Upload" /\ calls["b"].pc = "received"
    /\ calls["a"].arg # calls["b"].arg
    /\ calls["a"].req.URL = "https://oshi.at?autodestroy=1&expire=5&filename=name_test"
    /\ calls["b"].req.URL = calls["a"].req.URL

\* A call that has started, against solo, what it builds alone.
C9Call(c, solo) ==
    /\ c.dos <= 1
    /\ solo.err.kind # "nil" => c.dos = 0 /\ c.pc = "done" /\ c.err = solo.err
    /\ solo.err.kind = "nil" => c.dos = 1
    /\ c.pc = "done" /\ c.dos = 1 /\ c.resp = NoResponse
          => c.err = WrappedError("httpClient.Do")
    /\ c.pc = "done" /\ c.resp # NoResponse /\ c.resp.StatusCode # StatusOK
          => c.err.kind \in {"*Error", "wrapped"}
    /\ (/\ c.pc = "done" /\ c.op = "GetHashsum" /\ c.resp # NoResponse
        /\ c.resp.StatusCode = StatusOK /\ ~c.resp.readErr
        /\ FindStringSubmatchHashsum(c.resp.Body) = << >>)
          => c.err = WrongResponseError(c.resp.Body)

\* C9: a call invokes httpClient.Do at most once, and not at all when the
\* URL or the request cannot be built; an error of httpClient.Do, a status
\* other than 200 and a parse failure are each returned as an error, with no
\* further request.
C9_DoAtMostOnce ==
    \A p \in Started : C9Call(calls[p], SoloBuild(calls[p]))

\* An Upload whose one httpClient.Do failed has returned that error.
C9_Witness ==
    \E p \in Returned :
        /\ calls[p].op = "Upload"
        /\ calls[p].dos = 1
        /\ calls[p].resp = NoResponse
        /\ calls[p].err = WrappedError("httpClient.Do")

\* C10: the reader of an Image is read once and forward only (the bytes read
\* from it so far are its first i bytes, each once and in order); no Upload
\* sends a byte that was read from the reader before the call; and an Upload
\* of an Image whose reader is at its end has no body and sends nothing.
C10_SourceReadOnceForward ==
    /\ \A slot \in DOMAIN images :
          /\ images[slot].file.i \in 0..Len(images[slot].file.s)
          /\ wire[slot] = [k \in 1..images[slot].file.i |-> k]
    /\ \A p \in Started :
          calls[p].op = "Upload" /\ calls[p].dos > 0
          => /\ \A k \in 1..Len(calls[p].sent) :
                   calls[p].sent[k] > calls[p].before
             /\ calls[p].before = Len(images[calls[p].arg].file.s)
                   => calls[p].req.Body = NoBody /\ calls[p].sent = << >>

\* An Upload of an Image that was read to its end has succeeded with no body,
\* having sent nothing; another call holds the bytes it sent of that Image.
C10_Witness ==
    \E p, q \in Returned :
        /\ calls[p].op = "Upload" /\ calls[q].op = "Upload"
        /\ calls[p].arg = calls[q].arg
        /\ calls[q].sent # << >>
        /\ calls[p].before = Len(images[calls[p].arg].file.s)
        /\ calls[p].before > 0
        /\ calls[p].req.Body = NoBody
        /\ calls[p].sent = << >>
        /\ calls[p].err = NilError

\* The calls of op that have returned after a 200 response whose body was
\* read.
Parsed(op) ==
    {p \in Returned : /\ calls[p].op = op
                      /\ calls[p].dos > 0 /\ calls[p].resp # NoResponse
                      /\ calls[p].resp.StatusCode = StatusOK
                      /\ ~calls[p].resp.readErr}

\* C4: an Upload answered with the three lines http://a/1 [Admin],
\* http://a/2 [Download], http://a/3 [Tor download], in any order, with any
\* whitespace between and around them and the labels in any letter case,
\* returns Admin = http://a/1, Download = http://a/2, TorDownload =
\* http://a/3 and no error.
C4_ThreeLinesAnyOrder ==
    \A p \in Parsed("Upload") :
        calls[p].resp.Body \in ThreeLineBodies
        => /\ calls[p].err = NilError
           /\ calls[p].val = [Admin |-> "http://a/1", Download |-> "http://a/2",
                              TorDownload |-> "http://a/3"]

\* An Upload has returned the three URLs of a body that holds the lines in
\* the order Tor download, Admin, Download, the labels in capitals and each
\* on the line after its URL.
C4_Witness ==
    \E p \in Parsed("Upload") :
        /\ calls[p].resp.Body =
              "\nhttp://a/3 \n[TOR DOWNLOAD]\r\nhttp://a/1 \n[ADMIN]\r\nhttp://a/2 \n[DOWNLOAD]\n"
        /\ calls[p].resp.Body \in ThreeLineBodies
        /\ calls[p].val = [Admin |-> "http://a/1", Download |-> "http://a/2",
                           TorDownload |-> "http://a/3"]

\* A URL as uploadResponseRegex takes it: http:// or https:// and one or more
\* characters, none of them whitespace.
IsURL(url) ==
    /\ \/ HasAt(url, 1, "http://") /\ Len(url) > 7
       \/ HasAt(url, 1, "https://") /\ Len(url) > 8
    /\ \A k \in 1..Len(url) : ~IsSpace(At(url, k))

\* body holds, from position i on, url, g characters of whitespace and a
\* bracketed text that is label in lower case.
OccursAt(body, url, label, i, g) ==
    /\ HasAt(body, i, url)
    /\ \A k \in 0..(g - 1) : IsSpace(At(body, i + Len(url) + k))
    /\ At(body, i + Len(url) + g) = "["
    /\ ToLower(Slice(body, i + Len(url) + g + 1, i + Len(url) + g + Len(label)))
          = label
    /\ At(body, i + Len(url) + g + Len(label) + 1) = "]"

\* body holds an occurrence "<url> [<label>]".
Occurs(body, url, label) ==
    /\ IsURL(url)
    /\ \E i \in 1..Len(body) :
          /\ HasAt(body, i, url)
          /\ \E g \in 1..Len(body) : OccursAt(body, url, label, i, g)

\* The result r of parsing body has a field only from an occurrence of the
\* field's label.
OnlyFromOccurrences(body, r) ==
    /\ r.Admin # "" => Occurs(body, r.Admin, "admin")
    /\ r.Download # "" => Occurs(body, r.Download, "download")
    /\ r.TorDownload # "" => Occurs(body, r.TorDownload, "tor download")

\* C5: an Upload answered 200 returns no error whatever the body; a field of
\* its result is non-empty only if the body holds "<url> [<label>]" with that
\* URL and, in lower case, that field's label; a body with only a Download
\* line gives Download alone; a body with an unknown label or no such line
\* gives the empty result.
C5_UploadParserNeverFails ==
    \A p \in Parsed("Upload") :
        /\ calls[p].err = NilError
        /\ calls[p].parsed = {"parseUploadResponse"}
        /\ OnlyFromOccurrences(calls[p].resp.Body, calls[p].val)
        /\ calls[p].resp.Body = "https://a/2 [DOWNLOAD]\n"
              => calls[p].val = [Admin |-> "", Download |-> "https://a/2",
                                 TorDownload |-> ""]
        /\ calls[p].resp.Body \in
                 {"", "http://a/4 [Short]\n", "garbage [Admin]\n",
                  "http://a/5[Download]\nftp://a/7 [Download]\n"}
              => calls[p].val = EmptyUploadResponse

\* An Upload answered 200 with a line of an unknown label and a Download line
\* has returned the Download URL alone, and no error.
C5_Witness ==
    \E p \in Parsed("Upload") :
        /\ calls[p].resp.Body = "http://a/4 [Short]\nhttps://a/2 [DOWNLOAD]\n"
        /\ calls[p].err = NilError
        /\ calls[p].val = [Admin |-> "", Download |-> "https://a/2",
                           TorDownload |-> ""]

\* body holds "(" and a later ")".
HasParenGroup(body) ==
    \E i, j \in 1..Len(body) : i < j /\ At(body, i) = "(" /\ At(body, j) = ")"

\* body holds h, g characters of whitespace and a in parentheses, from
\* position i on.
GroupsAt(body, h, a, i, g) ==
    /\ HasAt(body, i, h)
    /\ \A k \in 0..(g - 1) : IsSpace(At(body, i + Len(h) + k))
    /\ HasAt(body, i + Len(h) + g, "(" \o a \o ")")

\* r is a whole result taken from body: a hashsum of letters and digits and,
\* after whitespace, the algorithm in parentheses.
WholeHashsum(body, r) ==
    /\ r.Hashsum # "" /\ r.Algorithm # ""
    /\ \A k \in 1..Len(r.Hashsum) : IsAlnum(At(r.Hashsum, k))
    /\ \E i, g \in 1..Len(body) : GroupsAt(body, r.Hashsum, r.Algorithm, i, g)

\* C6: a GetHashsum answered 200 either fails with ErrWrongResponse, its
\* message holding the body and its result empty, or returns a result with
\* both fields non-empty, the hashsum the first group and the algorithm the
\* second of an occurrence in the body; "deadbeef (sha256)" gives sha256 and
\* deadbeef, and a body without a parenthesized group fails.
C6_HashsumParserIsStrict ==
    \A p \in Parsed("GetHashsum") :
        /\ \/ /\ calls[p].err.kind = "ErrWrongResponse"
              /\ Contains(calls[p].err.Message, calls[p].resp.Body)
              /\ calls[p].val = EmptyHashsumResponse
           \/ /\ calls[p].err = NilError
              /\ WholeHashsum(calls[p].resp.Body, calls[p].val)
        /\ calls[p].resp.Body = "deadbeef (sha256)"
              => /\ calls[p].err = NilError
                 /\ calls[p].val = [Algorithm |-> "sha256", Hashsum |-> "deadbeef"]
        /\ ~HasParenGroup(calls[p].resp.Body)
              => calls[p].err.kind = "ErrWrongResponse"

\* A GetHashsum answered "deadbeef (sha256)" has returned both fields.
C6_Witness ==
    \E p \in Parsed("GetHashsum") :
        /\ calls[p].resp.Body = "deadbeef (sha256)"
        /\ calls[p].err = NilError
        /\ calls[p].val = [Algorithm |-> "sha256", Hashsum |-> "deadbeef"]

\* The query of a URL as its receiver decodes it: what follows the first "?",
\* as url.Values.
QueryOf(url) == ParseQuery(Slice(url, IndexFrom(url, "?", 1) + 1, Len(url)))

\* The Uploads whose URL has been built and handed to httpClient.Do.
Uploading == {p \in Started : calls[p].op = "Upload" /\ calls[p].dos > 0}

\* The query q has no parameter of a directive that img leaves at its default.
DefaultsOmitted(q, img) ==
    /\ img.expire = 0 => expire \notin DOMAIN q
    /\ ~img.autodestroy => autodestroy \notin DOMAIN q
    /\ ~img.randomizefn => randomizefn \notin DOMAIN q
    /\ ~img.shorturl => shorturl \notin DOMAIN q

\* The parameters of q for the directives img leaves at their defaults.
DefaultKeys(q, img) ==
    (DOMAIN q) \cap ((IF img.expire = 0 THEN {expire} ELSE {})
                     \cup (IF img.autodestroy THEN {} ELSE {autodestroy})
                     \cup (IF img.randomizefn THEN {} ELSE {randomizefn})
                     \cup (IF img.shorturl THEN {} ELSE {shorturl}))

\* C2, as the specification states it: the URL of an Upload has no parameter
\* of a directive the Image leaves at its default (expire = 0, a false
\* autodestroy, randomizefn or shorturl).
C2_DefaultsOmitted ==
    \A p \in Uploading :
        DefaultsOmitted(QueryOf(calls[p].req.URL), images[calls[p].arg])

\* C2, as the code has it: the URL of an Upload has a parameter of a
\* directive the Image leaves at its default only when the query of the
\* Client's endpoint holds that parameter, and then with the endpoint's
\* values; prepareUploadURL adds none.
C2_DefaultsNotAdded ==
    \A p \in Uploading :
        \A k \in DefaultKeys(QueryOf(calls[p].req.URL), images[calls[p].arg]) :
            /\ k \in DOMAIN QueryOf(constructed.endpoint)
            /\ QueryOf(calls[p].req.URL)[k] = QueryOf(constructed.endpoint)[k]

\* An Image with every directive at its default and the default filename is
\* uploaded to the default endpoint with no query at all.
C2_Witness ==
    \E p \in Uploading :
        /\ images[calls[p].arg].expire = 0
        /\ ~images[calls[p].arg].autodestroy
        /\ ~images[calls[p].arg].randomizefn
        /\ ~images[calls[p].arg].shorturl
        /\ images[calls[p].arg].filename = filename
        /\ calls[p].req.URL = defaultEndpoint

\* The Uploads of the README's kind (expire 5, autodestroy, no randomizefn,
\* no shorturl) that were answered 200 with the three lines.
ReadmeUploads ==
    {p \in Parsed("Upload") :
        /\ images[calls[p].arg].expire = 5
        /\ images[calls[p].arg].autodestroy
        /\ ~images[calls[p].arg].randomizefn
        /\ ~images[calls[p].arg].shorturl
        /\ calls[p].resp.Body \in ThreeLineBodies}

\* The call returned no error and a result with its three fields non-empty.
FullyPopulated(c) ==
    /\ c.err = NilError
    /\ c.val.Admin # "" /\ c.val.Download # "" /\ c.val.TorDownload # ""

\* C3, as the specification states it: the Upload returns no error and a
\* result with three non-empty fields, and the query of its request URL is
\* exactly expire=5 and autodestroy=1.
C3_ExactlyExpireAndAutodestroy ==
    \A p \in ReadmeUploads :
        /\ FullyPopulated(calls[p])
        /\ QueryOf(calls[p].req.URL) =
              [k \in {expire, autodestroy} |-> IF k = expire THEN <<"5">> ELSE <<"1">>]

\* The query of the README's kind of Upload: the endpoint's own parameters,
\* with expire=5, autodestroy=1 and, unless it is "filename", the filename
\* set over them.
ReadmeQuery(q0, img) ==
    [k \in (DOMAIN q0) \cup {expire, autodestroy}
           \cup (IF img.filename # filename THEN {filename} ELSE {}) |->
        IF k = expire THEN <<"5">>
        ELSE IF k = autodestroy THEN <<"1">>
        ELSE IF k = filename /\ img.filename # filename THEN <<img.filename>>
        ELSE q0[k]]

\* C3, as the code has it: the Upload returns no error and a result with
\* three non-empty fields, and the query of its request URL is expire=5,
\* autodestroy=1, filename=<the Image's filename> unless that is "filename",
\* and the parameters of the endpoint's own query that these do not replace;
\* randomizefn and shorturl are in it only if the endpoint's query has them.
C3_ExpireAutodestroyAndFilename ==
    \A p \in ReadmeUploads :
        /\ FullyPopulated(calls[p])
        /\ QueryOf(calls[p].req.URL) =
              ReadmeQuery(QueryOf(constructed.endpoint), images[calls[p].arg])

\* The Upload of the README on the default endpoint has returned the three
\* URLs, its request sent to a URL that has the filename beside expire and
\* autodestroy.
C3_Witness ==
    \E p \in ReadmeUploads :
        /\ constructed.endpoint = defaultEndpoint
        /\ images[calls[p].arg].filename = "name_test"
        /\ calls[p].req.URL = "https://oshi.at?autodestroy=1&expire=5&filename=name_test"
        /\ calls[p].val = [Admin |-> "http://a/1", Download |-> "http://a/2",
                           TorDownload |-> "http://a/3"]
        /\ calls[p].err = NilError

=============================================================================
